---- MODULE Spec2Model ----
(***************************************************************************)
(* Model of Scripts/fix_xcode_project.py: the script that registers        *)
(* FileBrowser.swift and ImageViewerPane.swift in project.pbxproj.         *)
(*                                                                         *)
(* A file is a sequence of tokens.  A token is a carriage return, a line   *)
(* feed, some other one-byte character, one of the four anchor lines the   *)
(* regular expressions match literally, or one inserted entry line.  The   *)
(* anchors and the entry lines contain no line break and none is a         *)
(* substring of another, so matching a pattern is matching one token.      *)
(* A write can stop at any byte: a file that ends inside an anchor line or *)
(* an entry line ends with the token Part, which stands for the bytes of   *)
(* that line that were written, at least one and not all of them, however  *)
(* many they are.  No pattern matches a part of a line.                    *)
(***************************************************************************)
EXTENDS Integers, Sequences, FiniteSets, TLC

VARIABLES
    target,      \* the file at project_file: [exists, data]
    backup,      \* the file at project_file + ".backup": [exists, data]
    pc,          \* position of the running process
    content,     \* local variable content (text, after decoding)
    ids,         \* the four local identifiers
    result,      \* return value of add_files_to_xcode_project
    exitStatus,  \* status handed to sys.exit, or the interpreter's on a crash
    raised,      \* the exception this invocation raised, if any
    run,         \* number of the current invocation
    orig,        \* history: target when the current invocation started
    origBackup,  \* history: backup when the current invocation started
    first        \* history: outcome of the first invocation, once it ended

vars == <<target, backup, pc, content, ids, result, exitStatus, raised, run,
          orig, origBackup, first>>

-----------------------------------------------------------------------------
(* Bounds *)

\* longest initial file made of arbitrary tokens
MaxLen == 2

\* generate_uuid returns one of NumIds values
NumIds == 2

-----------------------------------------------------------------------------
(* Tokens *)

Sections == {"PBXBuildFile", "PBXFileReference", "PBXGroup", "PBXSourcesBuildPhase"}

NewFiles == {"FileBrowser.swift", "ImageViewerPane.swift"}

Tok(k, sec, file, id, ref) ==
    [k |-> k, sec |-> sec, file |-> file, id |-> id, ref |-> ref]

Chr(c) == Tok(c, "", "", 0, 0)

CR == Chr("CR")

LF == Chr("LF")

Other == Chr("X")

\* the first bytes of an anchor line or an entry line, cut by a write that
\* stopped inside the line
Part == Chr("PART")

\* the group reference \1 of a replacement template
Backref == Chr("\\1")

\* the RawImageViewer.swift line that a section's pattern matches
Anchor(sec) == Tok("ANCHOR", sec, "RawImageViewer.swift", 0, 0)

\* one inserted line: its leading identifier id, and the fileRef it names
Entry(sec, file, id, ref) == Tok("ENTRY", sec, file, id, ref)

Absent == [exists |-> FALSE, data |-> <<>>]

File(d) == [exists |-> TRUE, data |-> d]

-----------------------------------------------------------------------------
(* Text-mode input and output *)

\* what a newline is written as on the platform of project_file (macOS)
LineSep == <<LF>>

RECURSIVE ReadText(_)
\* open(project_file, 'r').read(): universal newlines, CR LF and CR become LF
ReadText(bytes) ==
    IF bytes = <<>> THEN <<>>
    ELSE IF Head(bytes) = CR
         THEN IF Len(bytes) >= 2 /\ bytes[2] = LF
              THEN <<LF>> \o ReadText(Tail(Tail(bytes)))
              ELSE <<LF>> \o ReadText(Tail(bytes))
         ELSE <<Head(bytes)>> \o ReadText(Tail(bytes))

RECURSIVE WriteText(_)
\* open(path, 'w').write(text): each LF is written as the line separator
WriteText(text) ==
    IF text = <<>> THEN <<>>
    ELSE (IF Head(text) = LF THEN LineSep ELSE <<Head(text)>>)
         \o WriteText(Tail(text))

Min(a, b) == IF a <= b THEN a ELSE b

\* what a file can hold after open(path, 'w'), the write or the close
\* raised: untouched when open raised, else truncated and holding the bytes
\* that were flushed, at most all of them when it is the close that raised;
\* the bytes end between two tokens or inside a line
FailedWrite(file, text) ==
    LET out == WriteText(text)
        lines == {n \in 1..Len(out) : out[n].k \in {"ANCHOR", "ENTRY", "PART"}}
    IN {file}
       \cup {File(SubSeq(out, 1, n)) : n \in 0..Len(out)}
       \cup {File(SubSeq(out, 1, n - 1) \o <<Part>>) : n \in lines}

\* the status the interpreter ends with when the script asked for status:
\* 120 instead when the buffered console output cannot be flushed
ShutdownStatus(status) == {status, 120}

-----------------------------------------------------------------------------
(* Identifiers *)

\* the values generate_uuid() can return
generate_uuid == 1..NumIds

NoIds ==
    [file_browser_file_id |-> 0, file_browser_build_id |-> 0,
     image_viewer_file_id |-> 0, image_viewer_build_id |-> 0]

-----------------------------------------------------------------------------
(* The four substitutions *)

build_files_pattern == Anchor("PBXBuildFile")

\* a slip: the fileRef of a build entry names the build id
build_files_replacement_WrongRef(i) ==
    <<Backref,
      LF, Entry("PBXBuildFile", "FileBrowser.swift",
                i.file_browser_build_id, i.file_browser_build_id),
      LF, Entry("PBXBuildFile", "ImageViewerPane.swift",
                i.image_viewer_build_id, i.image_viewer_build_id)>>

build_files_replacement(i) ==
    <<Backref,
      LF, Entry("PBXBuildFile", "FileBrowser.swift",
                i.file_browser_build_id, i.file_browser_file_id),
      LF, Entry("PBXBuildFile", "ImageViewerPane.swift",
                i.image_viewer_build_id, i.image_viewer_file_id)>>

file_refs_pattern == Anchor("PBXFileReference")

file_refs_replacement(i) ==
    <<Backref,
      LF, Entry("PBXFileReference", "FileBrowser.swift",
                i.file_browser_file_id, 0),
      LF, Entry("PBXFileReference", "ImageViewerPane.swift",
                i.image_viewer_file_id, 0)>>

views_group_pattern == Anchor("PBXGroup")

views_group_replacement(i) ==
    <<Backref,
      LF, Entry("PBXGroup", "FileBrowser.swift", i.file_browser_file_id, 0),
      LF, Entry("PBXGroup", "ImageViewerPane.swift", i.image_viewer_file_id, 0)>>

sources_pattern == Anchor("PBXSourcesBuildPhase")

sources_replacement(i) ==
    <<Backref,
      LF, Entry("PBXSourcesBuildPhase", "FileBrowser.swift",
                i.file_browser_build_id, 0),
      LF, Entry("PBXSourcesBuildPhase", "ImageViewerPane.swift",
                i.image_viewer_build_id, 0)>>

\* a slip: the template lacks \1, the matched text is not put back
Expand_NoBackref(repl, match) ==
    SubSeq(repl, 2, Len(repl))

\* the replacement template with \1 replaced by the matched text
Expand(repl, match) ==
    [n \in 1..Len(repl) |-> IF repl[n] = Backref THEN match ELSE repl[n]]

RECURSIVE re_sub_Idempotent(_, _, _)
\* a variant that leaves alone an anchor an entry line already follows
re_sub_Idempotent(pattern, repl, text) ==
    IF text = <<>> THEN <<>>
    ELSE IF /\ Head(text) = pattern
            /\ ~(Len(text) >= 3 /\ text[2] = LF /\ text[3].k = "ENTRY")
         THEN <<pattern>> \o SubSeq(repl, 2, Len(repl))
              \o re_sub_Idempotent(pattern, repl, Tail(text))
         ELSE <<Head(text)>> \o re_sub_Idempotent(pattern, repl, Tail(text))

RECURSIVE re_sub(_, _, _)
\* re.sub(pattern, repl, text) with count left at 0: every match is replaced
re_sub(pattern, repl, text) ==
    IF text = <<>> THEN <<>>
    ELSE IF Head(text) = pattern
         THEN Expand(repl, pattern) \o re_sub(pattern, repl, Tail(text))
         ELSE <<Head(text)>> \o re_sub(pattern, repl, Tail(text))

AddBuildFiles(text, i) == re_sub(build_files_pattern, build_files_replacement(i), text)

AddFileRefs(text, i) == re_sub(file_refs_pattern, file_refs_replacement(i), text)

AddViewsGroup(text, i) == re_sub(views_group_pattern, views_group_replacement(i), text)

AddSources(text, i) == re_sub(sources_pattern, sources_replacement(i), text)

\* the four substitutions in the order of the source
Patched(text, i) ==
    AddSources(AddViewsGroup(AddFileRefs(AddBuildFiles(text, i), i), i), i)

-----------------------------------------------------------------------------
(* Initial files *)

Alphabet == {CR, LF, Other} \cup {Anchor(s) : s \in Sections}

ShortTexts == UNION {[1..n -> Alphabet] : n \in 0..MaxLen}

Separators == {<<>>, <<LF>>, <<CR, LF>>}

AnchorOrders ==
    {o \in [1..4 -> Sections] : \A a, b \in 1..4 : o[a] = o[b] => a = b}

\* a descriptor in which every anchor line occurs once, in any order
Descriptor(o, sep) ==
    <<Anchor(o[1])>> \o sep \o <<Anchor(o[2])>> \o sep \o
    <<Anchor(o[3])>> \o sep \o <<Anchor(o[4])>> \o sep

Descriptors == {Descriptor(o, sep) : o \in AnchorOrders, sep \in Separators}

\* the order of the sections in a project.pbxproj
PbxprojOrder ==
    <<"PBXBuildFile", "PBXFileReference", "PBXGroup", "PBXSourcesBuildPhase">>

\* a backup left behind by something else
StaleBackup == File(<<Other>>)

-----------------------------------------------------------------------------
(* The process *)

FreshLocals ==
    /\ pc = "start"
    /\ content = <<>>
    /\ ids = NoIds
    /\ result = "none"
    /\ exitStatus = -1
    /\ raised = "none"

InitFiles(texts) ==
    \/ /\ target = Absent
       /\ backup \in {Absent, StaleBackup}
    \/ /\ target \in {File(t) : t \in texts}
       /\ backup = Absent

Init ==
    /\ InitFiles(ShortTexts \cup Descriptors)
    /\ FreshLocals
    /\ run = 1
    /\ orig = target
    /\ origBackup = backup
    /\ first = <<>>

\* lines 18-25: four calls of generate_uuid, the three prints go through
GenerateIds ==
    /\ pc = "start"
    /\ \E ff \in generate_uuid, fb \in generate_uuid,
          vf \in generate_uuid, vb \in generate_uuid :
          ids' = [file_browser_file_id |-> ff, file_browser_build_id |-> fb,
                  image_viewer_file_id |-> vf, image_viewer_build_id |-> vb]
    /\ pc' = "read"
    /\ UNCHANGED <<target, backup, content, result, exitStatus, raised, run,
                   orig, origBackup, first>>

\* lines 18-25: the identifiers are generated, one of the prints on lines
\* 23-25 raises (the console cannot be written): nothing catches it
ConsoleRaises ==
    /\ pc = "start"
    /\ raised' = "console"
    /\ pc' = "exited"
    /\ exitStatus' \in ShutdownStatus(1)
    /\ UNCHANGED <<target, backup, content, ids, result, run, orig,
                   origBackup, first>>

\* lines 28-30: the project file is there and is read
ReadProject ==
    /\ pc = "read"
    /\ target.exists
    /\ content' = ReadText(target.data)
    /\ pc' = "backup"
    /\ UNCHANGED <<target, backup, ids, result, exitStatus, raised, run, orig,
                   origBackup, first>>

\* lines 29-31: open or read raises something else than FileNotFoundError
\* (a path component that is no directory, no permission, bytes that do not
\* decode), whether the file is there or not: nothing catches it
ReadRaises ==
    /\ pc = "read"
    /\ raised' = "read"
    /\ pc' = "exited"
    /\ exitStatus' \in ShutdownStatus(1)
    /\ content' = <<>>
    /\ ids' = NoIds
    /\ UNCHANGED <<target, backup, result, run, orig, origBackup, first>>

\* lines 28-31: open raises FileNotFoundError, line 31 catches it
ReadNotFound ==
    /\ pc = "read"
    /\ ~target.exists
    /\ raised' = "FileNotFoundError"
    /\ pc' = "notfound"
    /\ UNCHANGED <<target, backup, content, ids, result, exitStatus, run, orig,
                   origBackup, first>>

\* lines 32-33: the error message is printed, the function returns False
ReportNotFound ==
    /\ pc = "notfound"
    /\ result' = "False"
    /\ pc' = "returned"
    /\ UNCHANGED <<target, backup, content, ids, exitStatus, raised, run, orig,
                   origBackup, first>>

\* line 32 raises in the handler (the console cannot be written): nothing
\* catches it, the function returns nothing
ReportNotFoundRaises ==
    /\ pc = "notfound"
    /\ raised' = "notfound_report"
    /\ pc' = "exited"
    /\ exitStatus' \in ShutdownStatus(1)
    /\ content' = <<>>
    /\ ids' = NoIds
    /\ UNCHANGED <<target, backup, result, run, orig, origBackup, first>>

\* a slip: the backup is taken once the text has been patched
WriteBackup_AfterPatch ==
    /\ pc = "backup"
    /\ backup' = File(WriteText(Patched(content, ids)))
    /\ pc' = "patch"
    /\ UNCHANGED <<target, content, ids, result, exitStatus, raised, run, orig,
                   origBackup, first>>

\* a variant that keeps a backup that is already there
WriteBackup_OnlyIfMissing ==
    /\ pc = "backup"
    /\ backup' = (IF backup.exists THEN backup ELSE File(WriteText(content)))
    /\ pc' = "patch"
    /\ UNCHANGED <<target, content, ids, result, exitStatus, raised, run, orig,
                   origBackup, first>>

\* lines 36-37: the backup is written
WriteBackup ==
    /\ pc = "backup"
    /\ backup' = File(WriteText(content))
    /\ pc' = "patch"
    /\ UNCHANGED <<target, content, ids, result, exitStatus, raised, run, orig,
                   origBackup, first>>

\* lines 36-37 raise: nothing catches it
WriteBackupRaises ==
    /\ pc = "backup"
    /\ backup' \in FailedWrite(backup, content)
    /\ raised' = "backup"
    /\ pc' = "exited"
    /\ exitStatus' \in ShutdownStatus(1)
    /\ content' = <<>>
    /\ ids' = NoIds
    /\ UNCHANGED <<target, result, run, orig, origBackup, first>>

\* lines 40-69: the four substitutions
ApplyPatches ==
    /\ pc = "patch"
    /\ content' = Patched(content, ids)
    /\ pc' = "write"
    /\ UNCHANGED <<target, backup, ids, result, exitStatus, raised, run, orig,
                   origBackup, first>>

\* lines 72-74: the project file is overwritten
WriteProject ==
    /\ pc = "write"
    /\ target' = File(WriteText(content))
    /\ pc' = "wrote"
    /\ UNCHANGED <<backup, content, ids, result, exitStatus, raised, run, orig,
                   origBackup, first>>

\* lines 72-74 raise, line 77 catches it
WriteProjectRaises ==
    /\ pc = "write"
    /\ target' \in FailedWrite(target, content)
    /\ raised' = "write"
    /\ pc' = "handler"
    /\ UNCHANGED <<backup, content, ids, result, exitStatus, run, orig,
                   origBackup, first>>

\* lines 75-76: the success message is printed, the function returns True
ReportSuccess ==
    /\ pc = "wrote"
    /\ result' = "True"
    /\ pc' = "returned"
    /\ UNCHANGED <<target, backup, content, ids, exitStatus, raised, run, orig,
                   origBackup, first>>

\* line 75 raises (a console that cannot encode the check mark, or cannot
\* be written), line 77 catches it: the handler runs though the project
\* file has been rewritten to the end
ReportSuccessRaises ==
    /\ pc = "wrote"
    /\ raised' = "report"
    /\ pc' = "handler"
    /\ UNCHANGED <<target, backup, content, ids, result, exitStatus, run, orig,
                   origBackup, first>>

\* lines 78-79: the error message is printed, the function returns False
ReportFailure ==
    /\ pc = "handler"
    /\ result' = "False"
    /\ pc' = "returned"
    /\ UNCHANGED <<target, backup, content, ids, exitStatus, raised, run, orig,
                   origBackup, first>>

\* line 78 raises in the handler (a console that cannot encode the cross
\* mark, or cannot be written): nothing catches it, the function returns
\* nothing
ReportFailureRaises ==
    /\ pc = "handler"
    /\ pc' = "exited"
    /\ exitStatus' \in ShutdownStatus(1)
    /\ content' = <<>>
    /\ ids' = NoIds
    /\ UNCHANGED <<target, backup, result, raised, run, orig, origBackup, first>>

\* lines 82-83: sys.exit(0 if success else 1); the locals are gone
Exit ==
    /\ pc = "returned"
    /\ exitStatus' \in ShutdownStatus(IF result = "True" THEN 0 ELSE 1)
    /\ pc' = "exited"
    /\ content' = <<>>
    /\ ids' = NoIds
    /\ UNCHANGED <<target, backup, result, raised, run, orig, origBackup, first>>

\* the script is started a second time, on the files as the first run left
\* them, however it ended
Reinvoke ==
    /\ pc = "exited"
    /\ run = 1
    /\ first' = <<[orig |-> orig, backup |-> backup,
                   wrote |-> (orig.exists /\ raised \in {"none", "report"})]>>
    /\ run' = 2
    /\ orig' = target
    /\ origBackup' = backup
    /\ pc' = "start"
    /\ result' = "none"
    /\ exitStatus' = -1
    /\ raised' = "none"
    /\ content' = <<>>
    /\ ids' = NoIds
    /\ UNCHANGED <<target, backup>>

Next ==
    \/ GenerateIds
    \/ ConsoleRaises
    \/ ReadProject
    \/ ReadRaises
    \/ ReadNotFound
    \/ ReportNotFound
    \/ ReportNotFoundRaises
    \/ WriteBackup
    \/ WriteBackupRaises
    \/ ApplyPatches
    \/ WriteProject
    \/ WriteProjectRaises
    \/ ReportSuccess
    \/ ReportSuccessRaises
    \/ ReportFailure
    \/ ReportFailureRaises
    \/ Exit

\* one invocation, on any initial file
Spec == Init /\ [][Next]_vars

\* the files the twice-run script starts from
TwiceTexts == {<<>>, <<CR, Other>>, <<views_group_pattern, LF>>}

InitTwice ==
    /\ InitFiles(TwiceTexts)
    /\ FreshLocals
    /\ run = 1
    /\ orig = target
    /\ origBackup = backup
    /\ first = <<>>

NextTwice ==
    \/ Next
    \/ Reinvoke

\* two invocations in succession, with every error of the files and of
\* the console
SpecTwice == InitTwice /\ [][NextTwice]_vars

\* the sections the other way round
ReverseOrder ==
    <<"PBXSourcesBuildPhase", "PBXGroup", "PBXFileReference", "PBXBuildFile">>

\* the descriptors the script patches twice
RepatchTexts ==
    {Descriptor(o, sep) : o \in {PbxprojOrder, ReverseOrder}, sep \in Separators}

InitRepatch ==
    /\ InitFiles(RepatchTexts)
    /\ FreshLocals
    /\ run = 1
    /\ orig = target
    /\ origBackup = backup
    /\ first = <<>>

\* the steps of a run in which every file that is there can be read and
\* written
NextRepatch ==
    \/ GenerateIds
    \/ ConsoleRaises
    \/ ReadProject
    \/ ReadNotFound
    \/ ReportNotFound
    \/ ReportNotFoundRaises
    \/ WriteBackup
    \/ ApplyPatches
    \/ WriteProject
    \/ ReportSuccess
    \/ ReportSuccessRaises
    \/ ReportFailure
    \/ ReportFailureRaises
    \/ Exit
    \/ Reinvoke

\* two invocations in succession on files that can be read and written
SpecRepatch == InitRepatch /\ [][NextRepatch]_vars

-----------------------------------------------------------------------------
(* Vocabulary of the properties *)

\* the text the current invocation read, or would read, from the target
TextRead == ReadText(orig.data)

\* the positions of a token in a text
Positions(text, tok) == {n \in 1..Len(text) : text[n] = tok}

\* the positions of the inserted lines of a section
EntriesOf(text, sec) ==
    {n \in 1..Len(text) : text[n].k = "ENTRY" /\ text[n].sec = sec}

\* the inserted lines of a section for one file
EntriesFor(text, sec, file) ==
    {text[n] : n \in {m \in EntriesOf(text, sec) : text[m].file = file}}

\* what a section's substitution inserts after its anchor, written out
Payload(sec, i) ==
    LET fileId(f)  == IF f = "FileBrowser.swift" THEN i.file_browser_file_id
                      ELSE i.image_viewer_file_id
        buildId(f) == IF f = "FileBrowser.swift" THEN i.file_browser_build_id
                      ELSE i.image_viewer_build_id
        line(f) == Entry(sec, f,
                         IF sec \in {"PBXBuildFile", "PBXSourcesBuildPhase"}
                         THEN buildId(f) ELSE fileId(f),
                         IF sec = "PBXBuildFile" THEN fileId(f) ELSE 0)
    IN <<LF, line("FileBrowser.swift"), LF, line("ImageViewerPane.swift")>>

\* the tokens after position n of a text, at most four of them
After(text, n) == SubSeq(text, n + 1, Min(n + 4, Len(text)))

\* two new lines of a section stand right after position n
ShapedAsPayload(text, n, sec) ==
    LET a == After(text, n)
    IN /\ Len(a) = 4
       /\ a[1] = LF /\ a[3] = LF
       /\ a[2].k = "ENTRY" /\ a[2].sec = sec /\ a[2].file = "FileBrowser.swift"
       /\ a[4].k = "ENTRY" /\ a[4].sec = sec /\ a[4].file = "ImageViewerPane.swift"

RECURSIVE Strip(_)
\* a text without the two new lines that stand right after each anchor
Strip(text) ==
    IF text = <<>> THEN <<>>
    ELSE IF Head(text).k = "ANCHOR" /\ ShapedAsPayload(text, 1, Head(text).sec)
         THEN <<Head(text)>> \o Strip(SubSeq(text, 6, Len(text)))
         ELSE <<Head(text)>> \o Strip(Tail(text))

\* the project file has been rewritten to the end in this run, and the
\* locals of the function are still there
WroteBack ==
    /\ orig.exists
    /\ \/ pc = "wrote"
       \/ pc = "returned" /\ result = "True"

\* every anchor occurs exactly once in a text
AnchorsOnce(text) ==
    \A sec \in Sections : Cardinality(Positions(text, Anchor(sec))) = 1

\* the first position of a section's anchor in a text that has one
FirstAnchor(text, sec) ==
    CHOOSE n \in Positions(text, Anchor(sec)) :
        \A m \in Positions(text, Anchor(sec)) : n <= m

-----------------------------------------------------------------------------
(* Properties *)

\* C1: when each of the four anchors occurs exactly once in the text, a run
\* that rewrites the project file adds exactly two entries to each of the
\* four sections, one per new file, carrying the identifiers generated in
\* this run; for each new file the fileRef of its build entry is the id of
\* its file-reference entry and of its group line, and the id of its build
\* entry is the id of its line in the sources phase.
C1_TwoEntriesPerSection ==
    (WroteBack /\ AnchorsOnce(TextRead)) =>
        LET out == target.data
            e(sec, f) == CHOOSE x \in EntriesFor(out, sec, f) : TRUE
        IN /\ \A sec \in Sections :
                /\ Cardinality(EntriesOf(out, sec))
                     - Cardinality(EntriesOf(orig.data, sec)) = 2
                /\ \A f \in NewFiles :
                     Cardinality({n \in EntriesOf(out, sec) : out[n].file = f}) = 1
           /\ \A f \in NewFiles :
                /\ e("PBXBuildFile", f).ref = e("PBXFileReference", f).id
                /\ e("PBXBuildFile", f).ref = e("PBXGroup", f).id
                /\ e("PBXBuildFile", f).id = e("PBXSourcesBuildPhase", f).id
           /\ e("PBXBuildFile", "FileBrowser.swift").id = ids.file_browser_build_id
           /\ e("PBXBuildFile", "FileBrowser.swift").ref = ids.file_browser_file_id
           /\ e("PBXBuildFile", "ImageViewerPane.swift").id = ids.image_viewer_build_id
           /\ e("PBXBuildFile", "ImageViewerPane.swift").ref = ids.image_viewer_file_id

\* a run patched a descriptor with every anchor once, with a build id that
\* differs from the file id
C1_Witness ==
    /\ WroteBack
    /\ AnchorsOnce(TextRead)
    /\ ids.file_browser_file_id # ids.file_browser_build_id
    /\ Cardinality(EntriesOf(target.data, "PBXBuildFile")) = 2

\* C2: once a run has read the project file and written its backup, the
\* backup file holds, byte for byte, what the project file held before the
\* run, carriage returns included.
C2_BackupEqualsOriginalBytes ==
    (orig.exists /\ pc \in {"patch", "write", "wrote", "handler"}) =>
        /\ backup.exists
        /\ backup.data = orig.data

\* C3: when the project file does not exist as the script opens it, the run
\* creates neither file, changes no file, the function returns False and
\* the exit status is 1.
C3_MissingProjectFile ==
    (~orig.exists /\ raised # "console") =>
        /\ target = Absent
        /\ backup = origBackup
        /\ pc \in {"returned", "exited"} => result = "False"
        /\ pc = "exited" => exitStatus = 1

\* C4: whichever anchors are missing from the text, a run whose final write
\* succeeds raises no error, returns True and exits with status 0; a section
\* whose anchor is missing gets no entry, a section whose anchor is there
\* gets its two entries after the anchor; with no anchor at all the text
\* written is the text read.
C4_MissingAnchorsSkipped ==
    /\ WroteBack =>
        /\ target.data = WriteText(content)
        /\ \A sec \in Sections :
             IF Positions(TextRead, Anchor(sec)) = {}
             THEN EntriesOf(content, sec) = {}
             ELSE After(content, FirstAnchor(content, sec)) = Payload(sec, ids)
        /\ (\A sec \in Sections : Positions(TextRead, Anchor(sec)) = {})
             => content = TextRead
    /\ raised # "report"
    /\ (pc = "exited" /\ orig.exists /\ raised = "none") =>
        /\ result = "True"
        /\ exitStatus = 0

\* C5: a section's payload is inserted once, after the first occurrence of
\* its anchor only; later occurrences of the anchor get no insertion.
C5_OnlyFirstOccurrence ==
    WroteBack =>
        \A sec \in Sections :
            \A n \in Positions(target.data, Anchor(sec)) :
                ShapedAsPayload(target.data, n, sec)
                    <=> n = FirstAnchor(target.data, sec)

\* C6 as claimed: once the backup file exists, its content never changes,
\* whatever number of runs follow; stated for its central case, the backup
\* that a first run wrote before rewriting the project file is still there,
\* unchanged, at every point of the second run.
C6_BackupNeverModified ==
    (run = 2 /\ first[1].wrote) => backup = first[1].backup

\* C6 as amended: within one run the backup file is written at the backup
\* step only and is not modified afterwards in that run; every run that
\* reads the project file overwrites the backup with the text it read.
C6_BackupRewrittenEachRun ==
    /\ [][pc # "backup" => backup' = backup]_vars
    /\ []((orig.exists /\ pc \in {"patch", "write", "wrote", "handler", "returned"})
            => backup = File(WriteText(TextRead)))

\* the second run replaced the backup the first run had left
C6_Witness ==
    /\ run = 2
    /\ pc = "patch"
    /\ first[1].wrote
    /\ first[1].backup.exists
    /\ backup # first[1].backup

\* C7: two runs that both rewrite a text with every anchor exactly once
\* leave a text that differs from the first run's, in which every anchor
\* still occurs once and every section holds four entries: right after the
\* anchor the two of the second run with the second run's identifiers,
\* after them the two the first run inserted.
C7_SecondRunDuplicates ==
    (run = 2 /\ WroteBack /\ first[1].wrote
        /\ AnchorsOnce(first[1].orig.data)) =>
        LET out == target.data
            old == ReadText(orig.data)
        IN /\ out # orig.data
           /\ AnchorsOnce(out)
           /\ \A sec \in Sections :
                /\ Cardinality(EntriesOf(out, sec)) = 4
                /\ After(out, FirstAnchor(out, sec)) = Payload(sec, ids)
                /\ ShapedAsPayload(old, FirstAnchor(old, sec), sec)
                /\ After(out, FirstAnchor(out, sec) + 4)
                     = After(old, FirstAnchor(old, sec))

\* two runs rewrote the file, the second with identifiers other than the
\* first's
C7_Witness ==
    /\ run = 2
    /\ WroteBack
    /\ first[1].wrote
    /\ AnchorsOnce(first[1].orig.data)
    /\ After(target.data, FirstAnchor(target.data, "PBXBuildFile"))
         # After(target.data, FirstAnchor(target.data, "PBXBuildFile") + 4)

\* C8: when the final write raises, the error is caught and goes no
\* further: the function returns False, the exit status is 1, and the
\* backup file holds the text that was read from the project file at the
\* start of this run.
C8_WriteErrorCaught ==
    raised = "write" =>
        /\ pc \in {"handler", "returned", "exited"}
        /\ pc \in {"returned", "exited"} => result = "False"
        /\ pc = "exited" => exitStatus = 1
        /\ backup = File(WriteText(TextRead))

\* C9: at every point of a run, a project file that differs from what it
\* was when the run started comes with a backup file already holding the
\* text read at the start; a backup write that raises leaves the project
\* file as it was.
C9_BackupBeforeMutation ==
    /\ target # orig =>
        /\ pc \in {"wrote", "handler", "returned", "exited"}
        /\ backup = File(WriteText(TextRead))
    /\ raised = "backup" => target = orig

\* a run rewrote a project file that holds an anchor
C9_Witness ==
    /\ target # orig
    /\ raised = "none"
    /\ EntriesOf(target.data, "PBXFileReference") # {}

\* C10: the text written back is the text read with payloads inserted right
\* after anchors and nothing else: taking the inserted lines away gives the
\* text read, token for token.
C10_OnlyInsertions ==
    WroteBack =>
        /\ target.data = WriteText(content)
        /\ Strip(content) = TextRead
        /\ Len(content) = Len(TextRead)
             + 4 * Cardinality({n \in 1..Len(TextRead) : TextRead[n].k = "ANCHOR"})

\* a run inserted after an anchor of a text that holds other tokens too
C10_Witness ==
    /\ WroteBack
    /\ Len(content) > Len(TextRead)
    /\ \E n \in 1..Len(TextRead) : TextRead[n] = Other

====
